---- MODULE Spec2Model ----
(***************************************************************************)
(* Model of async_modbus: the asynchronous Modbus client (TCP and RTU)     *)
(* built on the umodbus codecs.  Bytes are naturals in 0..255, byte       *)
(* strings are sequences of bytes (1-based here, 0-based in the source).   *)
(***************************************************************************)
EXTENDS Integers, Sequences, FiniteSets, TLC

(* ------------------------------------------------------------------ *)
(* Bounds of the model                                                *)
(* ------------------------------------------------------------------ *)
MaxQuantity == 9      \* quantities of read requests range over 0..MaxQuantity
MaxCoils == 9         \* write_coils is called with 0..MaxCoils values
MaxWords == 2         \* write_registers is called with 0..MaxWords values
MaxCalls == 3         \* facade calls made in a session of two tasks

(* ------------------------------------------------------------------ *)
(* Program constants                                                  *)
(* ------------------------------------------------------------------ *)
READ_COILS == 1
READ_DISCRETE_INPUTS == 2
READ_HOLDING_REGISTERS == 3
READ_INPUT_REGISTERS == 4
WRITE_SINGLE_COIL == 5
WRITE_SINGLE_REGISTER == 6
WRITE_MULTIPLE_COILS == 15
WRITE_MULTIPLE_REGISTERS == 16

\* the keys of umodbus.functions.function_code_to_function_map
function_code_to_function_map ==
    {READ_COILS, READ_DISCRETE_INPUTS, READ_HOLDING_REGISTERS,
     READ_INPUT_REGISTERS, WRITE_SINGLE_COIL, WRITE_SINGLE_REGISTER,
     WRITE_MULTIPLE_COILS, WRITE_MULTIPLE_REGISTERS}

TcpExceptionAduSize == 9
RtuExceptionAduSize == 5
TcpHeaderSize == 7
RtuOverhead == 3

(* ------------------------------------------------------------------ *)
(* Byte strings                                                       *)
(* ------------------------------------------------------------------ *)
Min(a, b) == IF a < b THEN a ELSE b

\* s[i:j] of Python, 0-based, clipped like Python slices of bytes
Slice(s, i, j) ==
    LET lo == Min(i, Len(s))
        hi == Min(j, Len(s))
    IN  IF hi <= lo THEN << >> ELSE SubSeq(s, lo + 1, hi)

\* the sequence of length n whose i-th element is f[i]
Bytes(f, n) == SubSeq(f, 1, n)

Take(s, n) == Slice(s, 0, n)
Drop(s, n) == Slice(s, n, Len(s))

\* struct.pack(">H", n)
PackU16(n) == << (n \div 256) % 256, n % 256 >>

\* struct.unpack(">H", s[i:i+2])[0], i 0-based; needs both bytes
UnpackU16(s, i) == s[i + 1] * 256 + s[i + 2]

CeilDiv8(n) == (n + 7) \div 8

RECURSIVE Pow2(_)
Pow2(k) == IF k = 0 THEN 1 ELSE 2 * Pow2(k - 1)

\* bit k (0 = least significant) of natural b
Bit(b, k) == (b \div Pow2(k)) % 2

RECURSIVE Xor(_, _)
Xor(a, b) ==
    IF a = 0 THEN b
    ELSE IF b = 0 THEN a
    ELSE ((a + b) % 2) + 2 * Xor(a \div 2, b \div 2)

(* ------------------------------------------------------------------ *)
(* umodbus.client.serial.redundancy_check.get_crc: CRC-16/Modbus,     *)
(* appended little-endian                                             *)
(* ------------------------------------------------------------------ *)
RECURSIVE CrcShift(_, _)
CrcShift(c, k) ==
    IF k = 0 THEN c
    ELSE CrcShift(IF c % 2 = 1 THEN Xor(c \div 2, 40961) ELSE c \div 2, k - 1)

\* the look-up table of redundancy_check
look_up_table == [b \in 0..255 |-> CrcShift(b, 8)]

get_crc(s) ==
    LET crc[i \in 0..Len(s)] ==
            IF i = 0 THEN 65535
            ELSE CHOOSE r \in {Xor(c \div 256, look_up_table[Xor(c % 256, s[i])]) :
                                    c \in {crc[i - 1]}} : TRUE
    IN  << crc[Len(s)] % 256, crc[Len(s)] \div 256 >>

(* ------------------------------------------------------------------ *)
(* Results of a facade call                                           *)
(* ------------------------------------------------------------------ *)
NoResult == [kind |-> "none", err |-> "", code |-> 0, num |-> 0, vec |-> << >>]
Number(n) == [kind |-> "number", err |-> "", code |-> 0, num |-> n, vec |-> << >>]
Vector(v) == [kind |-> "vector", err |-> "", code |-> 0, num |-> 0, vec |-> v]
Failure(e) == [kind |-> "error", err |-> e, code |-> 0, num |-> 0, vec |-> << >>]
\* the error umodbus raises for an exception response carrying code c
ServerError(c) ==
    [kind |-> "error", err |-> "ServerException", code |-> c, num |-> 0, vec |-> << >>]

(* ------------------------------------------------------------------ *)
(* Bit and 16-bit codecs of async_modbus                              *)
(* ------------------------------------------------------------------ *)
\* packing with the most significant bit first (numpy's default bit order)
PackBitsBig(values) ==
    Bytes([j \in 1..CeilDiv8(Len(values)) |->
            LET lo == 8 * (j - 1)
                w(k) == IF lo + k + 1 <= Len(values) /\ values[lo + k + 1] # 0
                        THEN Pow2(7 - k) ELSE 0
            IN  w(0) + w(1) + w(2) + w(3) + w(4) + w(5) + w(6) + w(7)],
          CeilDiv8(Len(values)))

\* numpy.packbits(values, bitorder="little").tobytes()
PackBitsLittle(values) ==
    Bytes([j \in 1..CeilDiv8(Len(values)) |->
            LET lo == 8 * (j - 1)
                w(k) == IF lo + k + 1 <= Len(values) /\ values[lo + k + 1] # 0
                        THEN Pow2(k) ELSE 0
            IN  w(0) + w(1) + w(2) + w(3) + w(4) + w(5) + w(6) + w(7)],
          CeilDiv8(Len(values)))

pack_bits(function_code, starting_address, values) ==
    LET count == Len(values)
    IN  << function_code >> \o PackU16(starting_address) \o PackU16(count)
        \o << CeilDiv8(count) >> \o PackBitsLittle(values)

\* a 16-bit word as numpy stores it for dtype ">i2" or ">u2": two's complement
WordBytes(v) == PackU16((v + 65536) % 65536)

RECURSIVE WordsBytes(_, _)
WordsBytes(values, i) ==
    IF i > Len(values) THEN << >>
    ELSE WordBytes(values[i]) \o WordsBytes(values, i + 1)

pack_16bits(function_code, starting_address, values) ==
    << function_code >> \o PackU16(starting_address) \o PackU16(Len(values))
    \o << 2 * Len(values) >> \o WordsBytes(values, 1)

\* unpack_bits: numpy.frombuffer(resp_pdu, "u1", offset=2, count=byte_count)
\* then numpy.unpackbits(packed, count=count, bitorder="little"), which pads
\* with zeros past the packed bytes.  frombuffer raises ValueError when the
\* buffer is shorter than offset + count.
unpack_bits(resp_pdu, req_pdu) ==
    LET count == UnpackU16(req_pdu, Len(req_pdu) - 2)
    IN  IF Len(resp_pdu) < 2 THEN Failure("struct.error")
        ELSE LET byte_count == resp_pdu[2]
             IN  IF Len(resp_pdu) < 2 + byte_count THEN Failure("ValueError")
                 ELSE Vector(Bytes([i \in 1..count |->
                        IF (i - 1) \div 8 < byte_count
                        THEN Bit(resp_pdu[3 + ((i - 1) \div 8)], (i - 1) % 8)
                        ELSE 0], count))

\* a parser that reads every word as unsigned
WordValueUnsigned(hi, lo, signed) == hi * 256 + lo

\* the value of a big-endian 16-bit word for dtype ">i2" (signed) or ">u2"
WordValue(hi, lo, signed) ==
    LET w == hi * 256 + lo
    IN  IF signed /\ w >= 32768 THEN w - 65536 ELSE w

\* unpack_16bits: numpy.frombuffer(resp_pdu, dtype, count=count, offset=2)
unpack_16bits(resp_pdu, req_pdu, signed) ==
    LET count == UnpackU16(req_pdu, Len(req_pdu) - 2)
    IN  IF Len(resp_pdu) < 2 + 2 * count THEN Failure("ValueError")
        ELSE Vector(Bytes([i \in 1..count |->
                WordValue(resp_pdu[2 * i + 1], resp_pdu[2 * i + 2], signed)], count))

(* ------------------------------------------------------------------ *)
(* Requests of the facade and the request PDUs umodbus builds         *)
(* ------------------------------------------------------------------ *)
ReadBitOps == {"read_coils", "read_discrete_inputs"}
ReadRegOps == {"read_holding_registers", "read_input_registers"}
ReadOps == ReadBitOps \cup ReadRegOps

FunctionCode(op) ==
    CASE op = "read_coils" -> READ_COILS
      [] op = "read_discrete_inputs" -> READ_DISCRETE_INPUTS
      [] op = "read_holding_registers" -> READ_HOLDING_REGISTERS
      [] op = "read_input_registers" -> READ_INPUT_REGISTERS
      [] op = "write_coil" -> WRITE_SINGLE_COIL
      [] op = "write_register" -> WRITE_SINGLE_REGISTER
      [] op = "write_coils" -> WRITE_MULTIPLE_COILS
      [] op = "write_registers" -> WRITE_MULTIPLE_REGISTERS

Built(pdu) == [ok |-> TRUE, err |-> "", pdu |-> pdu]
Rejected(e) == [ok |-> FALSE, err |-> e, pdu |-> << >>]

\* umodbus ReadCoils / ReadDiscreteInputs: quantity must be in 1..2000
read_bits_pdu(fc, starting_address, quantity) ==
    IF quantity < 1 \/ quantity > 2000 THEN Rejected("IllegalDataValueError")
    ELSE Built(<< fc >> \o PackU16(starting_address) \o PackU16(quantity))

\* umodbus ReadHoldingRegisters / ReadInputRegisters: quantity in 1..125
read_registers_pdu(fc, starting_address, quantity) ==
    IF quantity < 1 \/ quantity > 125 THEN Rejected("IllegalDataValueError")
    ELSE Built(<< fc >> \o PackU16(starting_address) \o PackU16(quantity))

\* umodbus WriteSingleCoil: value in {0, 1, 0xFF00}; ON goes out as FF 00
write_single_coil_pdu(address, value) ==
    IF value \notin {0, 1, 65280} THEN Rejected("IllegalDataValueError")
    ELSE Built(<< WRITE_SINGLE_COIL >> \o PackU16(address)
               \o PackU16(IF value = 0 THEN 0 ELSE 65280))

\* umodbus WriteMultipleCoils.values setter (1..1968 values, each 0 or 1),
\* then the patched request_pdu property
request_pdu_coils(starting_address, values) ==
    IF Len(values) < 1 \/ Len(values) > 1968
       \/ \E i \in 1..Len(values) : values[i] \notin {0, 1}
    THEN Rejected("IllegalDataValueError")
    ELSE Built(pack_bits(WRITE_MULTIPLE_COILS, starting_address, values))

\* struct.pack(">" + conf.TYPE_CHAR, v) succeeds: "h" when signed, else "H"
FitsTypeChar(v, signed) ==
    IF signed THEN v >= -32768 /\ v <= 32767 ELSE v >= 0 /\ v <= 65535

\* umodbus WriteMultipleRegisters.values setter (1..123 values, each packable
\* with conf.TYPE_CHAR), then the patched request_pdu property
request_pdu_registers(starting_address, values, signed) ==
    IF Len(values) < 1 \/ Len(values) > 123
       \/ \E i \in 1..Len(values) : ~FitsTypeChar(values[i], signed)
    THEN Rejected("IllegalDataValueError")
    ELSE Built(pack_16bits(WRITE_MULTIPLE_REGISTERS, starting_address, values))

\* a facade that packs the arguments without the protocol module's validation
RequestPduUnchecked(r, signed) ==
    CASE r.op \in ReadOps ->
            Built(<< FunctionCode(r.op) >> \o PackU16(r.addr) \o PackU16(r.n))
      [] r.op = "write_coil" -> write_single_coil_pdu(r.addr, r.n)
      [] r.op = "write_register" -> Rejected("AttributeError")
      [] r.op = "write_coils" -> Built(pack_bits(WRITE_MULTIPLE_COILS, r.addr, r.vals))
      [] r.op = "write_registers" ->
            Built(pack_16bits(WRITE_MULTIPLE_REGISTERS, r.addr, r.vals))

\* the request PDU each facade method asks the protocol module for;
\* write_register looks up self.protocol.protocol, which no protocol
\* module has
RequestPdu(r, signed) ==
    CASE r.op \in ReadBitOps -> read_bits_pdu(FunctionCode(r.op), r.addr, r.n)
      [] r.op \in ReadRegOps -> read_registers_pdu(FunctionCode(r.op), r.addr, r.n)
      [] r.op = "write_coil" -> write_single_coil_pdu(r.addr, r.n)
      [] r.op = "write_register" -> Rejected("AttributeError")
      [] r.op = "write_coils" -> request_pdu_coils(r.addr, r.vals)
      [] r.op = "write_registers" -> request_pdu_registers(r.addr, r.vals, signed)

(* ------------------------------------------------------------------ *)
(* Framing: umodbus.client.tcp and umodbus.client.serial.rtu          *)
(* ------------------------------------------------------------------ *)
\* tcp._create_request_adu: MBAP header (transaction id, 0, length, unit) + PDU
tcp_create_request_adu(transaction_id, slave_id, pdu) ==
    PackU16(transaction_id) \o << 0, 0 >> \o PackU16(Len(pdu) + 1)
    \o << slave_id >> \o pdu

\* rtu._create_request_adu: address + PDU + CRC
rtu_create_request_adu(slave_id, pdu) ==
    LET first == << slave_id >> \o pdu IN first \o get_crc(first)

\* the request PDU inside a request ADU: adu[7:] (TCP), adu[1:-2] (RTU)
RequestPduOf(protocol, adu) ==
    IF protocol = "tcp" THEN Drop(adu, TcpHeaderSize)
    ELSE Slice(adu, 1, Len(adu) - 2)

\* the PDU the exception check and the parser see in a response ADU
ResponsePduOf(protocol, adu) ==
    IF protocol = "tcp" THEN Drop(adu, TcpHeaderSize)
    ELSE Slice(adu, 1, Len(adu) - 2)

\* the two prefix sizes exchanged between the variants
exception_adu_size_swapped(protocol) ==
    IF protocol = "tcp" THEN RtuExceptionAduSize ELSE TcpExceptionAduSize

exception_adu_size(protocol) ==
    IF protocol = "tcp" THEN TcpExceptionAduSize ELSE RtuExceptionAduSize

\* a size that counts the function code and the byte count but no data
expected_response_pdu_size_without_data(pdu) == 2

\* umodbus expected_response_pdu_size_from_request_pdu
expected_response_pdu_size_from_request_pdu(pdu) ==
    LET fc == pdu[1]
        quantity == UnpackU16(pdu, 3)
    IN  IF fc \in {READ_COILS, READ_DISCRETE_INPUTS} THEN 2 + CeilDiv8(quantity)
        ELSE IF fc \in {READ_HOLDING_REGISTERS, READ_INPUT_REGISTERS}
             THEN 2 + 2 * quantity
        ELSE 5

\* the TCP overhead added in both variants
expected_response_size_tcp_overhead(protocol, adu) ==
    expected_response_pdu_size_from_request_pdu(RequestPduOf(protocol, adu)) + TcpHeaderSize

\* expected_response_size of send_message_tcp / send_message_rtu
expected_response_size(protocol, adu) ==
    expected_response_pdu_size_from_request_pdu(RequestPduOf(protocol, adu))
    + (IF protocol = "tcp" THEN TcpHeaderSize ELSE RtuOverhead)

\* umodbus pdu_to_function_code_or_raise_error: a function code outside the
\* function map makes the PDU an exception response, whose second byte is the
\* exception code; NoResult stands for "returns the function code"
pdu_to_function_code_or_raise_error(resp_pdu) ==
    IF Len(resp_pdu) < 1 THEN Failure("struct.error")
    ELSE IF resp_pdu[1] \in function_code_to_function_map THEN NoResult
    ELSE IF Len(resp_pdu) < 2 THEN Failure("struct.error")
    ELSE ServerError(resp_pdu[2])

\* a driver that does not look at the prefix
raise_for_exception_adu_skipped(protocol, resp_adu) == NoResult

\* tcp.raise_for_exception_adu / rtu.raise_for_exception_adu
raise_for_exception_adu(protocol, resp_adu) ==
    pdu_to_function_code_or_raise_error(ResponsePduOf(protocol, resp_adu))

\* umodbus validate_crc: the CRC of msg[:-2] must equal msg[-2:]
validate_crc(msg) ==
    Len(msg) >= 2 /\ get_crc(Slice(msg, 0, Len(msg) - 2)) = Drop(msg, Len(msg) - 2)

\* a parser that returns the first word of the echo, the address
EchoFirstWord(resp_pdu) == UnpackU16(resp_pdu, 1)

\* struct.unpack(">HH", resp_pdu[1:5])[1], the second word of the echo
EchoWord(resp_pdu) == UnpackU16(resp_pdu, 3)

\* umodbus create_function_from_response_pdu(resp_pdu, req_pdu).data with the
\* four read parsers replaced by those of async_modbus; the parser is chosen
\* by the function code of the response
create_function_from_response_pdu(resp_pdu, req_pdu, signed) ==
    LET chk == pdu_to_function_code_or_raise_error(resp_pdu)
    IN  IF chk.kind = "error" THEN chk
        ELSE LET fc == resp_pdu[1]
             IN  IF fc \in {READ_COILS, READ_DISCRETE_INPUTS}
                 THEN unpack_bits(resp_pdu, req_pdu)
                 ELSE IF fc \in {READ_HOLDING_REGISTERS, READ_INPUT_REGISTERS}
                 THEN unpack_16bits(resp_pdu, req_pdu, signed)
                 ELSE IF Len(resp_pdu) < 5 THEN Failure("struct.error")
                 ELSE IF fc = WRITE_SINGLE_COIL
                 THEN Number(IF EchoWord(resp_pdu) = 65280 THEN 1 ELSE EchoWord(resp_pdu))
                 ELSE IF fc = WRITE_SINGLE_REGISTER
                 THEN Number(WordValue(resp_pdu[4], resp_pdu[5], signed))
                 ELSE Number(EchoWord(resp_pdu))

\* tcp.parse_response_adu(resp_adu, req_adu): no header check, and the request
\* ADU itself goes to the parser, which reads only its last two bytes.
\* rtu.parse_response_adu(resp_adu, req_adu): CRC check, then the parser.
parse_response_adu(protocol, resp_adu, req_adu, signed) ==
    IF protocol = "tcp"
    THEN create_function_from_response_pdu(Drop(resp_adu, TcpHeaderSize), req_adu, signed)
    ELSE IF ~validate_crc(resp_adu) THEN Failure("CRCError")
    ELSE create_function_from_response_pdu(
            Slice(resp_adu, 1, Len(resp_adu) - 2),
            Slice(req_adu, 1, Len(req_adu) - 2), signed)

(* ------------------------------------------------------------------ *)
(* The server at the other end of the stream (environment)            *)
(* ------------------------------------------------------------------ *)
\* data the server holds, as byte patterns repeated over the payload
Patterns == << << 0 >>, << 255 >>, << 5, 128 >>, << 18, 52, 171, 205 >> >>

Fill(p, n) == Bytes([i \in 1..n |-> Patterns[p][((i - 1) % Len(Patterns[p])) + 1]], n)

\* the well-formed response PDU to a request PDU
NormalResponsePdu(req_pdu, p) ==
    LET fc == req_pdu[1]
        quantity == UnpackU16(req_pdu, 3)
    IN  IF fc \in {READ_COILS, READ_DISCRETE_INPUTS}
        THEN << fc, CeilDiv8(quantity) >> \o Fill(p, CeilDiv8(quantity))
        ELSE IF fc \in {READ_HOLDING_REGISTERS, READ_INPUT_REGISTERS}
        THEN << fc, 2 * quantity >> \o Fill(p, 2 * quantity)
        ELSE Take(req_pdu, 5)

ExceptionCodes == {2, 11}

\* what the server may do with a request: answer it, answer with an exception
\* response, answer with a wrong byte-count field or a wrong function code,
\* or close the connection after sending only a few bytes;
\* or answer, normally or with an exception response, in a frame that does
\* not belong to the request
Behaviours ==
    [kind : {"normal"}, pat : 1..Len(Patterns), arg : {0}]
    \cup [kind : {"exception"}, pat : {1}, arg : ExceptionCodes]
    \cup [kind : {"bytecount"}, pat : {2}, arg : {0, 1}]
    \cup [kind : {"fc"}, pat : {4}, arg : {READ_COILS, READ_HOLDING_REGISTERS}]
    \cup [kind : {"eof"}, pat : {1}, arg : {0, 6}]
    \cup [kind : {"frame"}, pat : {4}, arg : 1..4]
    \cup [kind : {"badexc"}, pat : {1}, arg : {2}]

ResponsePdu(req_pdu, b) ==
    LET normal == NormalResponsePdu(req_pdu, b.pat)
    IN  CASE b.kind \in {"exception", "badexc"} -> << req_pdu[1] + 128, b.arg >>
          [] b.kind = "bytecount" /\ req_pdu[1] \in 1..4 ->
                << normal[1], b.arg >> \o Drop(normal, 2)
          [] b.kind = "fc" -> << b.arg >> \o Drop(normal, 1)
          [] OTHER -> normal

\* byte i of a frame replaced by another value
Corrupt(s, i) == [s EXCEPT ![i] = (@ + 1) % 256]

\* a response whose framing does not belong to the request.  TCP: another
\* transaction id (1), protocol id (2), length (3) or unit id (4).  RTU: the
\* frame of another slave with its own valid CRC (1), a wrong CRC byte
\* (2, 3), or another address under the CRC of the original frame (4).
BadFrame(protocol, whole, k) ==
    IF protocol = "tcp"
    THEN Corrupt(whole, 2 * Min(k, 3) + (IF k = 4 THEN 1 ELSE 0))
    ELSE CASE k = 1 -> LET first == Corrupt(Take(whole, Len(whole) - 2), 1)
                       IN  first \o get_crc(first)
           [] k = 2 -> Corrupt(whole, Len(whole))
           [] k = 3 -> Corrupt(whole, Len(whole) - 1)
           [] OTHER -> Corrupt(whole, 1)

\* the response ADU: the request's MBAP fields echoed with the new length
\* (TCP), or the address, the PDU and their CRC (RTU)
ResponseAdu(protocol, req_adu, b) ==
    LET pdu == ResponsePdu(RequestPduOf(protocol, req_adu), b)
        whole == IF protocol = "tcp"
                 THEN Take(req_adu, 4) \o PackU16(Len(pdu) + 1)
                      \o << req_adu[7] >> \o pdu
                 ELSE << req_adu[1] >> \o pdu \o get_crc(<< req_adu[1] >> \o pdu)
    IN  CASE b.kind = "eof" -> Take(whole, b.arg)
          [] b.kind = "frame" -> BadFrame(protocol, whole, b.arg)
          [] b.kind = "badexc" -> BadFrame(protocol, whole, 2)
          [] OTHER -> whole

(* ------------------------------------------------------------------ *)
(* State                                                              *)
(* ------------------------------------------------------------------ *)
VARIABLES
    client,       \* the class the client was built from
    protocolArg,  \* the protocol argument of its constructor, "none" if absent
    protocol,     \* self.protocol as the methods find it: "tcp" or "rtu"
    signed,       \* umodbus conf.SIGNED_VALUES
    asyncWrite,   \* inspect.iscoroutinefunction(stream.writer.write)
    reader,       \* the read methods the reader object has
    callers,      \* the tasks of the application that call the client
    workload,     \* which requests the application may make (see WorkloadOf)
    server,       \* what the server may do with a request (see ServerOf)
    budget,       \* facade calls the application still makes
    pc,           \* per task: "idle", "drain", "read1", "read2", "done"
    req,          \* per task: the arguments of its facade call
    adu,          \* per task: the request ADU of its transaction
    got,          \* per task: the response bytes read so far
    result,       \* per task: what the facade call returned or raised
    trace,        \* per task: the stream operations of its current call
    writeCoro,    \* _Stream._write_coro: 0 for None, else the task whose write it is
    rxbuf,        \* bytes the stream holds for the reader
    closed,       \* the server has closed the connection
    inflight,     \* requests written whose transaction has not ended
    closedBy,     \* who has invoked the stream's close: "nobody", "caller", "client"
    factory,      \* the call of modbus_for_url that built the client, if any
    awaited,      \* per task: times the pending write of its transaction was awaited
    stream,       \* what the client was built over: "single" object or "pair"
    closedOn      \* the object whose close was invoked, "none" if none was

vars == << client, protocolArg, protocol, signed, asyncWrite, reader, callers, workload, server,
           budget, pc, req, adu, got, result, trace, writeCoro, rxbuf, closed,
           inflight, closedBy, factory, awaited, stream, closedOn >>

config == << client, protocolArg, protocol, signed, asyncWrite, reader, callers, workload,
            server, factory, stream >>

Tasks == {1, 2}

(* ------------------------------------------------------------------ *)
(* Inputs                                                             *)
(* ------------------------------------------------------------------ *)
SlaveIds == {17}
Addresses == {263}
TransactionIds == {4660}         \* tcp: randint(0, 65535)
CoilSeeds == {0, 13, 341, 511}
\* register values in both representations: 65535 and -1 are the same 16 bits
RegValues == {0, 4660, 65535, -1}

\* the first n bits of seed, least significant first
BitSeq(seed, n) == Bytes([i \in 1..n |-> Bit(seed, i - 1)], n)

RECURSIVE SeqsUpTo(_, _)
SeqsUpTo(S, n) ==
    IF n = 0 THEN {<< >>}
    ELSE LET shorter == SeqsUpTo(S, n - 1)
         IN  shorter \cup {Append(q, x) : q \in {z \in shorter : Len(z) = n - 1}, x \in S}

Requests ==
    [op : ReadOps, slave : SlaveIds, addr : Addresses, n : 0..MaxQuantity, vals : {<< >>}]
    \cup [op : {"write_coil"}, slave : SlaveIds, addr : Addresses, n : {0, 1},
          vals : {<< >>}]
    \cup [op : {"write_register"}, slave : SlaveIds, addr : Addresses, n : RegValues,
          vals : {<< >>}]
    \cup [op : {"write_coils"}, slave : SlaveIds, addr : Addresses, n : {0},
          vals : {BitSeq(seed, k) : seed \in CoilSeeds, k \in 0..MaxCoils}]
    \cup [op : {"write_registers"}, slave : SlaveIds, addr : Addresses, n : {0},
          vals : SeqsUpTo(RegValues, MaxWords)]

\* the requests and server behaviours of a session of two tasks on one client
SessionRequests ==
    { [op |-> "read_coils", slave |-> 17, addr |-> 263, n |-> 3, vals |-> << >>],
      [op |-> "read_coils", slave |-> 17, addr |-> 263, n |-> 0, vals |-> << >>],
      [op |-> "write_coils", slave |-> 17, addr |-> 263, n |-> 0, vals |-> << 1, 0, 1, 1 >>] }

SessionBehaviours ==
    { [kind |-> "normal", pat |-> 3, arg |-> 0],
      [kind |-> "exception", pat |-> 1, arg |-> 2] }

ReaderShapes == {{"read_exactly", "read"}, {"readexactly", "read"}, {"read"}}

(* ------------------------------------------------------------------ *)
(* _Stream: the adapter over the caller's stream                      *)
(* ------------------------------------------------------------------ *)
\* _Stream.__init__: the method bound to self.readexactly
StreamReadexactly(r) ==
    IF "read_exactly" \in r THEN "read_exactly"
    ELSE IF "readexactly" \in r THEN "readexactly"
    ELSE "read"

\* the sizes a plain read of up to m available bytes may return
ReadSizes(m) == {m} \cup {k \in {1, m - 1} : k >= 1}

\* the ways self.readexactly(n) can complete: the reader's own exact read
\* returns n bytes or fails at EOF; a plain read returns what has arrived,
\* at most n bytes, and b"" at EOF.  Empty when the call stays suspended.
ReadExactlyOutcomes(method, buf, eof, n) ==
    IF method = "read"
    THEN IF Len(buf) > 0
         THEN {[ok |-> TRUE, data |-> Take(buf, k), rest |-> Drop(buf, k)] :
                    k \in ReadSizes(Min(n, Len(buf)))}
         ELSE IF eof THEN {[ok |-> TRUE, data |-> << >>, rest |-> << >>]} ELSE {}
    ELSE IF Len(buf) >= n
         THEN {[ok |-> TRUE, data |-> Take(buf, n), rest |-> Drop(buf, n)]}
         ELSE IF eof THEN {[ok |-> FALSE, data |-> << >>, rest |-> << >>]} ELSE {}

\* _Stream.__init__: a tuple or list is unpacked into reader and writer, any
\* other object is both
StreamShapes == {"single", "pair"}
StreamReader(shape) == IF shape = "pair" THEN "reader" ELSE "stream"
StreamWriter(shape) == IF shape = "pair" THEN "writer" ELSE "stream"

\* an adapter that binds every method to the reader
TargetReaderOnly(shape, name) ==
    IF name \in {"read", "write", "drain", "close"} THEN StreamReader(shape) ELSE "none"

\* the object behind each method of the adapter: readexactly is a method of
\* the reader; write, drain and close are, or wrap, methods of the writer
Target(shape, name) ==
    IF name = "read" THEN StreamReader(shape)
    ELSE IF name \in {"write", "drain", "close"} THEN StreamWriter(shape)
    ELSE "none"

\* a stream operation of the driver, its size and the object it goes to
Op(name, n) == [op |-> name, n |-> n, on |-> Target(stream, name)]

(* ------------------------------------------------------------------ *)
(* Initial states                                                     *)
(* ------------------------------------------------------------------ *)
\* the class attribute `protocol`: None on AsyncClient, fixed by the
\* convenience classes
ClassProtocol(cls) ==
    CASE cls = "AsyncTCPClient" -> "tcp"
      [] cls = "AsyncRTUClient" -> "rtu"
      [] OTHER -> "none"

\* a constructor that ignores its protocol argument
ResolveProtocolFromClass(cls, arg) == IF cls = "AsyncClient" THEN "tcp" ELSE ClassProtocol(cls)

\* AsyncClient.__init__: a protocol argument that is not None becomes an
\* instance attribute, which hides the class attribute
ResolveProtocol(cls, arg) == IF arg # "none" THEN arg ELSE ClassProtocol(cls)

\* the ways a client is built: the convenience classes without a protocol
\* argument, AsyncClient with one
Constructions ==
    { << "AsyncTCPClient", "none" >>, << "AsyncRTUClient", "none" >>,
      << "AsyncClient", "tcp" >>, << "AsyncClient", "rtu" >> }

\* modbus_for_url has not been called
NoFactory == [url |-> << >>, target |-> << >>, outcome |-> "none", err |-> ""]

\* everything about a client but the way it was built
InitRest(cs, wl, sv, b) ==
    /\ signed \in BOOLEAN
    /\ asyncWrite \in BOOLEAN
    /\ reader \in ReaderShapes
    /\ callers = cs
    /\ workload = wl
    /\ server = sv
    /\ budget = b
    /\ pc = [t \in Tasks |-> "idle"]
    /\ req = [t \in Tasks |-> [op |-> "none", slave |-> 0, addr |-> 0, n |-> 0, vals |-> << >>]]
    /\ adu = [t \in Tasks |-> << >>]
    /\ got = [t \in Tasks |-> << >>]
    /\ result = [t \in Tasks |-> NoResult]
    /\ trace = [t \in Tasks |-> << >>]
    /\ writeCoro = 0
    /\ rxbuf = << >>
    /\ closed = FALSE
    /\ inflight = 0
    /\ closedBy = "nobody"
    /\ awaited = [t \in Tasks |-> 0]
    /\ closedOn = "none"

InitWith(cs, wl, sv, b) ==
    /\ \E c \in Constructions : client = c[1] /\ protocolArg = c[2]
    /\ protocol = ResolveProtocol(client, protocolArg)
    /\ factory = NoFactory
    /\ stream = "single"
    /\ InitRest(cs, wl, sv, b)

\* the requests of a workload and the behaviours of a server
WorkloadOf(w) == IF w = "any" THEN Requests ELSE SessionRequests
ServerOf(sv) == IF sv = "any" THEN Behaviours ELSE SessionBehaviours

\* one task makes one call on a convenience client, with any request against
\* any server behaviour
Init ==
    /\ InitWith({1}, "any", "any", 1)
    /\ client # "AsyncClient"

(* ------------------------------------------------------------------ *)
(* The facade call up to its first suspension                         *)
(* ------------------------------------------------------------------ *)
create_request_adu(proto, transaction_id, slave_id, pdu) ==
    IF proto = "tcp" THEN tcp_create_request_adu(transaction_id, slave_id, pdu)
    ELSE rtu_create_request_adu(slave_id, pdu)

\* an adapter whose write does not keep the coroutine it is given
CapturedWriteLost(t, slot) == slot

\* the adapter's write(data) over an asynchronous writer:
\* self._write_coro = self.writer.write(data), the coroutine of task t's
\* write, not yet started
CapturedWrite(t, slot) == t

\* AsyncClient.<method>: build the request (which validates the arguments),
\* then _send_message -> send_message_tcp / send_message_rtu up to the
\* await of drain: writer.write(adu), writer.drain().  Over an asynchronous
\* writer the adapter's drain runs, without suspension after the write, to
\* its assertion and to the await of the coroutine in the slot.
Call(t) ==
    /\ t \in callers
    /\ pc[t] \in {"idle", "done"}
    /\ budget > 0
    /\ \E r \in WorkloadOf(workload), tid \in TransactionIds :
         LET b == RequestPdu(r, signed)
             a == create_request_adu(protocol, tid, r.slave, b.pdu)
             slot == IF asyncWrite THEN CapturedWrite(t, writeCoro) ELSE writeCoro
         IN  /\ req' = [req EXCEPT ![t] = r]
             /\ got' = [got EXCEPT ![t] = << >>]
             /\ IF b.ok
                THEN /\ adu' = [adu EXCEPT ![t] = a]
                     /\ trace' = [trace EXCEPT ![t] = << Op("write", Len(a)), Op("drain", 0) >>]
                     /\ writeCoro' = slot
                     /\ IF asyncWrite /\ slot = 0
                        THEN /\ pc' = [pc EXCEPT ![t] = "done"]
                             /\ result' = [result EXCEPT ![t] = Failure("AssertionError")]
                             /\ inflight' = inflight
                             /\ awaited' = [awaited EXCEPT ![t] = 0]
                        ELSE /\ pc' = [pc EXCEPT ![t] = "drain"]
                             /\ result' = [result EXCEPT ![t] = NoResult]
                             /\ inflight' = inflight + 1
                             /\ awaited' = IF asyncWrite
                                           THEN [u \in Tasks |->
                                                  (IF u = t THEN 0 ELSE awaited[u])
                                                  + (IF u = slot THEN 1 ELSE 0)]
                                           ELSE awaited
                ELSE /\ adu' = [adu EXCEPT ![t] = << >>]
                     /\ trace' = [trace EXCEPT ![t] = << >>]
                     /\ writeCoro' = writeCoro
                     /\ pc' = [pc EXCEPT ![t] = "done"]
                     /\ result' = [result EXCEPT ![t] = Failure(b.err)]
                     /\ inflight' = inflight
                     /\ awaited' = [awaited EXCEPT ![t] = 0]
    /\ budget' = budget - 1
    /\ UNCHANGED << config, closedBy, closedOn, rxbuf, closed >>

(* ------------------------------------------------------------------ *)
(* The three suspension points of send_message_tcp / send_message_rtu  *)
(* ------------------------------------------------------------------ *)
\* a transaction that ends without being counted out of the stream
FinishStillInFlight(t, r) ==
    /\ pc' = [pc EXCEPT ![t] = "done"]
    /\ result' = [result EXCEPT ![t] = r]
    /\ inflight' = inflight

\* the transaction of task t ends, returning or raising r
Finish(t, r) ==
    /\ pc' = [pc EXCEPT ![t] = "done"]
    /\ result' = [result EXCEPT ![t] = r]
    /\ inflight' = inflight - 1

\* `await writer.drain()` returns: the request has gone out and the server
\* has reacted to it; the adapter's drain of an asynchronous write then
\* clears _write_coro.  The driver goes on to readexactly(exception_adu_size).
DrainDone(t) ==
    /\ pc[t] = "drain"
    /\ \E b \in ServerOf(server) :
         /\ rxbuf' = IF closed THEN rxbuf ELSE rxbuf \o ResponseAdu(protocol, adu[t], b)
         /\ closed' = (closed \/ b.kind = "eof")
    /\ writeCoro' = IF asyncWrite THEN 0 ELSE writeCoro
    /\ pc' = [pc EXCEPT ![t] = "read1"]
    /\ trace' = [trace EXCEPT ![t] = Append(@, Op("read", exception_adu_size(protocol)))]
    /\ UNCHANGED << config, closedBy, closedOn, awaited, budget, req, adu, got, result, inflight >>

\* a driver that answers a failed drain by writing the request again
DrainFailRetried(t) ==
    /\ pc[t] = "drain"
    /\ Len(trace[t]) < 4
    /\ trace' = [trace EXCEPT ![t] = @ \o << Op("write", Len(adu[t])), Op("drain", 0) >>]
    /\ UNCHANGED << config, closedBy, closedOn, awaited, budget, pc, req, adu, got, result,
                    writeCoro, rxbuf, closed,
                    inflight >>

\* a driver that closes the stream when drain fails
DrainFailClosing(t) ==
    /\ pc[t] = "drain"
    /\ Finish(t, Failure("TransportError"))
    /\ closedBy' = "client"
    /\ closedOn' = Target(stream, "close")
    /\ closed' = TRUE
    /\ UNCHANGED << config, awaited, budget, req, adu, got, trace, writeCoro, rxbuf >>

\* `await writer.drain()` raises a transport error: it propagates, and the
\* adapter's drain does not reach the line that clears _write_coro
DrainFail(t) ==
    /\ pc[t] = "drain"
    /\ Finish(t, Failure("TransportError"))
    /\ UNCHANGED << config, closedBy, closedOn, awaited, budget, req, adu, got, trace, writeCoro, rxbuf, closed >>

\* the size of the second read
remainder_size(proto, a) == expected_response_size(proto, a) - exception_adu_size(proto)

\* `await reader.readexactly(exception_adu_size)` completes; then
\* raise_for_exception_adu, and if it does not raise, the second read is issued
ReadPrefix(t) ==
    /\ pc[t] = "read1"
    /\ \E o \in ReadExactlyOutcomes(StreamReadexactly(reader), rxbuf, closed,
                                    exception_adu_size(protocol)) :
         /\ rxbuf' = o.rest
         /\ IF ~o.ok
            THEN /\ Finish(t, Failure("IncompleteReadError"))
                 /\ UNCHANGED << got, trace >>
            ELSE LET exc == raise_for_exception_adu(protocol, o.data)
                 IN  /\ got' = [got EXCEPT ![t] = o.data]
                     /\ IF exc.kind = "error"
                        THEN /\ Finish(t, exc)
                             /\ UNCHANGED trace
                        ELSE /\ pc' = [pc EXCEPT ![t] = "read2"]
                             /\ trace' = [trace EXCEPT ![t] =
                                    Append(@, Op("read", remainder_size(protocol, adu[t])))]
                             /\ UNCHANGED << result, inflight >>
    /\ UNCHANGED << config, closedBy, closedOn, awaited, budget, req, adu, writeCoro, closed >>

\* a driver that, having read the remainder, waits on a timer nobody sets
ReadRemainderThenSleeps(t) ==
    /\ pc[t] = "read2"
    /\ pc' = [pc EXCEPT ![t] = "sleep"]
    /\ UNCHANGED << config, closedBy, closedOn, awaited, budget, req, adu, got, result, trace,
                    writeCoro, rxbuf, closed, inflight >>

\* `await reader.readexactly(expected_response_size - exception_adu_size)`
\* completes; then parse_response_adu(prefix + remainder, adu)
ReadRemainder(t) ==
    /\ pc[t] = "read2"
    /\ \E o \in ReadExactlyOutcomes(StreamReadexactly(reader), rxbuf, closed,
                                    remainder_size(protocol, adu[t])) :
         /\ rxbuf' = o.rest
         /\ IF ~o.ok
            THEN /\ Finish(t, Failure("IncompleteReadError"))
                 /\ UNCHANGED << got, trace >>
            ELSE /\ got' = [got EXCEPT ![t] = @ \o o.data]
                 /\ trace' = [trace EXCEPT ![t] = Append(@, Op("parse", 0))]
                 /\ Finish(t, parse_response_adu(protocol, got[t] \o o.data, adu[t], signed))
    /\ UNCHANGED << config, closedBy, closedOn, awaited, budget, req, adu, writeCoro, closed >>

(* ------------------------------------------------------------------ *)
(* What the caller may do besides calling: cancel, close               *)
(* ------------------------------------------------------------------ *)
\* the caller cancels the call of task t while it is suspended at drain or
\* at a read: CancelledError is raised at that await and leaves the driver;
\* the line after `await self._write_coro` in the adapter's drain is not
\* reached, and bytes of the response that have arrived stay in the stream
Cancel(t) ==
    /\ pc[t] \in {"drain", "read1", "read2"}
    /\ Finish(t, Failure("CancelledError"))
    /\ UNCHANGED << config, closedBy, closedOn, awaited, budget, req, adu, got, trace, writeCoro, rxbuf,
                    closed >>

\* the caller, not inside a call, closes the stream through the adapter's
\* close (the writer's close) and makes no further call on it
close(t) ==
    /\ t \in callers
    /\ pc[t] \in {"idle", "done"}
    /\ closedBy = "nobody"
    /\ closedBy' = "caller"
    /\ closedOn' = Target(stream, "close")
    /\ closed' = TRUE
    /\ budget' = 0
    /\ UNCHANGED << config, awaited, pc, req, adu, got, result, trace, writeCoro, rxbuf,
                    inflight >>

Next ==
    \E t \in Tasks :
        \/ Call(t)
        \/ DrainDone(t)
        \/ DrainFail(t)
        \/ ReadPrefix(t)
        \/ ReadRemainder(t)
        \/ Cancel(t)
        \/ close(t)

Spec == Init /\ [][Next]_vars

\* two tasks share one client and make MaxCalls calls between them, with no
\* coordination: a call may start while another is suspended
InitSession ==
    /\ InitWith({1, 2}, "few", "few", MaxCalls)
    /\ client # "AsyncClient"
    /\ signed = FALSE
    /\ StreamReadexactly(reader) = "readexactly"

SpecSession == InitSession /\ [][Next]_vars

\* one task makes one call on AsyncClient(stream, protocol=P)
InitFacade ==
    /\ InitWith({1}, "any", "any", 1)
    /\ client = "AsyncClient"

SpecFacade == InitFacade /\ [][Next]_vars

\* one task makes MaxCalls - 1 calls one after the other on one client; the
\* server answers every request with one well-formed response, and no call
\* is cancelled
InitSequence == InitWith({1}, "few", "few", MaxCalls - 1)

NextSequence ==
    \E t \in Tasks :
        \/ Call(t)
        \/ DrainDone(t)
        \/ ReadPrefix(t)
        \/ ReadRemainder(t)

SpecSequence == InitSequence /\ [][NextSequence]_vars

\* a client over a single object or over a (reader, writer) pair; one task
\* makes MaxCalls - 1 calls and may close the stream
InitPair ==
    /\ \E c \in Constructions : client = c[1] /\ protocolArg = c[2]
    /\ protocol = ResolveProtocol(client, protocolArg)
    /\ factory = NoFactory
    /\ stream \in StreamShapes
    /\ InitRest({1}, "few", "few", MaxCalls - 1)

SpecPair == InitPair /\ [][Next]_vars

\* every awaited stream operation eventually completes: a drain returns or
\* raises, a read returns or raises
StreamCompletes ==
    \A t \in Tasks :
        /\ WF_vars(DrainDone(t) \/ DrainFail(t))
        /\ WF_vars(ReadPrefix(t))
        /\ WF_vars(ReadRemainder(t))

\* one task makes one call on a convenience client and may cancel it or
\* close the stream
InitLive ==
    /\ InitWith({1}, "few", "few", 1)
    /\ client # "AsyncClient"

\* the same over a stream whose operations complete
SpecLive == InitLive /\ [][Next]_vars /\ StreamCompletes

(* ------------------------------------------------------------------ *)
(* modbus_for_url: a client from a URL                                *)
(* ------------------------------------------------------------------ *)
\* A URL is the sequence of its parts: scheme and "://", then host, then
\* ":" and port, then path, each optional ("something silly" is one part).
SOCKET_SCHEMES == {"tcp"}
SERIAL_SCHEMES == {"serial", "serial-tcp", "rfc2217", "serial-tango"}
OtherSchemes == {"unknown", "udp", "http"}
Hosts == {"localhost", "plc.acme.org"}
Ports == {"502", "1000"}
Paths == {"/", "/dev/ttyS0"}

Urls ==
    { << "something silly" >>, << "tcp" >>, << "/dev/ttyS0" >> }
    \cup { << s, "://" >> \o h \o p : s \in SOCKET_SCHEMES \cup SERIAL_SCHEMES \cup OtherSchemes,
            h \in {<< >>} \cup {<< x >> : x \in Hosts}
                  \cup {<< x, ":", n >> : x \in Hosts, n \in Ports},
            p \in {<< >>} \cup {<< x >> : x \in Paths} }

\* urllib.parse.urlparse(url).scheme: what stands before "://", "" if absent
UrlScheme(url) == IF Len(url) >= 2 /\ url[2] = "://" THEN url[1] ELSE ""

\* the parts of the network location: those after "://" and before the path
UrlNetloc(url) ==
    IF UrlScheme(url) = "" THEN << >>
    ELSE LET stops == {k \in 3..Len(url) : url[k] \in Paths}
             end == IF stops = {} THEN Len(url)
                    ELSE (CHOOSE k \in stops : \A j \in stops : k <= j) - 1
         IN  Slice(url, 2, end)

\* urllib.parse.urlparse(url).port: what follows ":" in the network
\* location, "none" for None
UrlPort(url) ==
    LET loc == UrlNetloc(url)
    IN  IF \E k \in 1..(Len(loc) - 1) : loc[k] = ":"
        THEN loc[(CHOOSE k \in 1..(Len(loc) - 1) : loc[k] = ":") + 1]
        ELSE "none"

\* a factory that hands the URL to the connection library as it came
ConnectionUrlAsGiven(url) == url

\* the URL handed to connio: ":502" is appended to the text of a tcp URL
\* whose port is None
ConnectionUrl(url) ==
    IF UrlScheme(url) = "tcp" /\ UrlPort(url) = "none"
    THEN url \o << ":", "502" >>
    ELSE url

\* connio.connection_for_url: a sockio or serialio object for the schemes
\* it knows (made without opening anything), a ValueError for the others
connection_for_url(url) ==
    IF UrlScheme(url) \in SOCKET_SCHEMES \cup SERIAL_SCHEMES THEN "stream" ELSE "ValueError"

\* modbus_for_url(url): the record of the call and the class it instantiates
ModbusForUrl(url) ==
    LET scheme == UrlScheme(url)
        target == ConnectionUrl(url)
        conn == connection_for_url(target)
    IN  IF conn = "ValueError"
        THEN [url |-> url, target |-> target, outcome |-> "error", err |-> "ValueError",
              cls |-> "none"]
        ELSE IF scheme \in SOCKET_SCHEMES
        THEN [url |-> url, target |-> target, outcome |-> "client", err |-> "",
              cls |-> "AsyncTCPClient"]
        ELSE IF scheme \in SERIAL_SCHEMES
        THEN [url |-> url, target |-> target, outcome |-> "client", err |-> "",
              cls |-> "AsyncRTUClient"]
        ELSE [url |-> url, target |-> target, outcome |-> "error", err |-> "ValueError",
              cls |-> "none"]

\* the application holds a URL and no client yet
InitUrl ==
    /\ client = "none"
    /\ protocolArg = "none"
    /\ protocol = "none"
    /\ \E u \in Urls : factory = [NoFactory EXCEPT !.url = u]
    /\ stream = "single"
    /\ InitRest({1}, "any", "any", 1)

\* the application calls modbus_for_url(url) and keeps what it returns
modbus_for_url ==
    /\ factory.outcome = "none"
    /\ client = "none"
    /\ LET f == ModbusForUrl(factory.url)
       IN  /\ factory' = [url |-> f.url, target |-> f.target, outcome |-> f.outcome,
                          err |-> f.err]
           /\ client' = f.cls
           /\ protocol' = ResolveProtocol(f.cls, "none")
    /\ UNCHANGED << protocolArg, signed, asyncWrite, reader, callers, workload, server,
                    budget, pc, req, adu, got, result, trace, writeCoro, rxbuf, closed,
                    inflight, closedBy, awaited, stream, closedOn >>

NextUrl == modbus_for_url

SpecUrl == InitUrl /\ [][NextUrl]_vars

(* ------------------------------------------------------------------ *)
(* Properties                                                         *)
(* ------------------------------------------------------------------ *)
\* position (1-based) of the function-code byte in a response ADU
FcIndex == IF protocol = "tcp" THEN 8 ELSE 2

\* the size of the first read: 9 bytes for TCP, 5 bytes for RTU
PrefixSize == IF protocol = "tcp" THEN 9 ELSE 5

\* framing bytes around the response PDU: 7 for TCP, 3 for RTU
Overhead == IF protocol = "tcp" THEN 7 ELSE 3

\* the size of the successful response PDU, from the arguments of the call
ResponsePduSize(r) ==
    IF r.op \in ReadBitOps THEN 2 + ((r.n + 7) \div 8)
    ELSE IF r.op \in ReadRegOps THEN 2 + 2 * r.n
    ELSE 5

\* the stream operations of a transaction that runs to the end
FullTrace(t) ==
    << Op("write", Len(adu[t])), Op("drain", 0), Op("read", PrefixSize),
       Op("read", ResponsePduSize(req[t]) - 2), Op("parse", 0) >>

\* C1: when the first read of a transaction (9 bytes for TCP, 5 for RTU)
\* carries a function-code byte with bit 0x80 set, the transaction ends by
\* raising the server exception with the code of the prefix, and its only
\* read is that first read.
C1_ExceptionPrefixEndsTransaction ==
    \A t \in Tasks :
        (Len(got[t]) >= PrefixSize /\ got[t][FcIndex] >= 128)
        => /\ pc[t] = "done"
           /\ result[t] = ServerError(got[t][FcIndex + 1])
           /\ trace[t] = Take(FullTrace(t), 3)
           /\ Len(got[t]) = PrefixSize

C1_Witness ==
    \E t \in Tasks :
        /\ pc[t] = "done"
        /\ protocol = "rtu"
        /\ Len(got[t]) = 5
        /\ got[t][2] >= 128
        /\ result[t].err = "ServerException"

\* C2: every transaction performs write, drain, read of the prefix size, read
\* of the remainder (only if the prefix is not an exception) and parse, in
\* this order and no other; no read precedes the completion of drain; the
\* transaction is suspended only at drain and at the two reads.
C2_StreamOperationsInOrder ==
    \A t \in Tasks :
        LET n == Len(trace[t])
        IN  /\ trace[t] = Take(FullTrace(t), n)
            /\ pc[t] \in {"idle", "drain", "read1", "read2", "done"}
            /\ pc[t] = "idle" => n = 0
            /\ pc[t] = "drain" => n = 2
            /\ pc[t] = "read1" => n = 3
            /\ pc[t] = "read2" => n = 4
            /\ pc[t] = "done" => n \in {0, 2, 3, 4, 5}
            /\ n = 5 => pc[t] = "done"
            /\ n >= 4 => got[t][FcIndex] < 128

C2_Witness ==
    \E t \in Tasks :
        /\ pc[t] = "done"
        /\ Len(trace[t]) = 5
        /\ result[t].kind = "vector"

\* C3: in a transaction whose prefix is not an exception the second read asks
\* for response_pdu_size - 2 bytes, so that 7 + response_pdu_size (TCP) or
\* 3 + response_pdu_size (RTU) bytes are read in all, where the size is
\* 2 + ceil(quantity/8) for function codes 1 and 2, 2 + 2*quantity for 3 and
\* 4, and 5 otherwise; the request PDU is the request ADU without its first
\* 7 bytes (TCP) or without its first byte and its last 2 bytes (RTU).
C3_SecondReadSize ==
    \A t \in Tasks :
        Len(trace[t]) >= 4
        => /\ trace[t][4] = Op("read", ResponsePduSize(req[t]) - 2)
           /\ trace[t][3].n + trace[t][4].n = Overhead + ResponsePduSize(req[t])
           /\ RequestPdu(req[t], signed).pdu =
                 IF protocol = "tcp" THEN SubSeq(adu[t], 8, Len(adu[t]))
                 ELSE SubSeq(adu[t], 2, Len(adu[t]) - 2)
           /\ (Len(trace[t]) = 5 /\ StreamReadexactly(reader) # "read")
                 => Len(got[t]) = Overhead + ResponsePduSize(req[t])

C3_Witness ==
    \E t \in Tasks :
        /\ Len(trace[t]) = 5
        /\ protocol = "rtu"
        /\ req[t].op = "read_holding_registers"
        /\ req[t].n = 2
        /\ Len(got[t]) = 9

\* C4: a read call with quantity 0, and write_coils or write_registers with
\* no values, fails with IllegalDataValue before its first suspension point,
\* and nothing is written to or read from the stream.
C4_EmptyRequestRejectedBeforeIo ==
    \A t \in Tasks :
        (\/ req[t].op \in ReadOps /\ req[t].n = 0
         \/ req[t].op \in {"write_coils", "write_registers"} /\ req[t].vals = << >>)
        => /\ pc[t] = "done"
           /\ result[t] = Failure("IllegalDataValueError")
           /\ trace[t] = << >>
           /\ rxbuf = << >>
           /\ inflight = 0

C4_Witness ==
    \E t \in Tasks :
        /\ pc[t] = "done"
        /\ req[t].op = "write_coils"
        /\ req[t].vals = << >>
        /\ result[t].err = "IllegalDataValueError"
        /\ trace[t] = << >>

\* the request and response PDUs of the transaction of task t
SentPdu(t) == RequestPduOf(protocol, adu[t])
ReceivedPdu(t) == ResponsePduOf(protocol, got[t])

\* the transaction of task t ran to the end and returned r.kind = "vector"
\* from a response of full length that carries the request's function code
ReturnedVector(t) ==
    /\ pc[t] = "done"
    /\ Len(trace[t]) = 5
    /\ result[t].kind = "vector"
    /\ Len(got[t]) = Overhead + ResponsePduSize(req[t])
    /\ ReceivedPdu(t)[1] = FunctionCode(req[t].op)

\* C5: a write_register call that has ended has written a request of
\* function code 6, and when the response it read echoes that request it
\* returned the echoed value.
C5_WriteRegisterReturnsEcho ==
    \A t \in Tasks :
        (pc[t] = "done" /\ req[t].op = "write_register")
        => /\ Len(trace[t]) >= 1
           /\ trace[t][1].op = "write"
           /\ SentPdu(t) = << WRITE_SINGLE_REGISTER >> \o PackU16(req[t].addr)
                            \o PackU16(req[t].n)
           /\ (Len(trace[t]) = 5 /\ ReceivedPdu(t) = SentPdu(t))
                 => result[t] = Number(req[t].n)

\* C6: for every reader the adapter accepts, a read-exactly of n bytes that
\* succeeds has returned n bytes: the prefix a transaction goes on with has
\* the size of the first read, and the response it parses has the size of
\* both reads.
C6_ReadExactlyNeverShort ==
    \A t \in Tasks :
        /\ pc[t] = "read2" => Len(got[t]) = trace[t][3].n
        /\ Len(trace[t]) = 5 => Len(got[t]) = trace[t][3].n + trace[t][4].n

\* the calls that have written their request and have not yet ended
InProgress == {t \in Tasks : pc[t] \in {"drain", "read1", "read2"}}

C8_BitVectorFromDataBytes ==
    \A t \in Tasks :
        (ReturnedVector(t) /\ req[t].op \in ReadBitOps)
        => /\ Len(result[t].vec) = req[t].n
           /\ UnpackU16(SentPdu(t), 3) = req[t].n
           /\ \A i \in 0..(req[t].n - 1) :
                 result[t].vec[i + 1] = Bit(ReceivedPdu(t)[3 + (i \div 8)], i % 8)

\* C9: the request PDU of write_coils (15) and write_registers (16) is the
\* function code, the start and the number of values as big-endian words, the
\* number of payload bytes (ceil(quantity/8) for coils, 2*quantity for
\* registers) and the payload: coil bits least significant first with zero
\* padding bits, registers as big-endian 16-bit words.
C9_WriteMultipleRequestLayout ==
    \A t \in Tasks :
        (req[t].op \in {"write_coils", "write_registers"} /\ Len(trace[t]) >= 1)
        => LET pdu == SentPdu(t)
               q == Len(req[t].vals)
           IN  /\ pdu[1] = IF req[t].op = "write_coils" THEN 15 ELSE 16
               /\ pdu[2] * 256 + pdu[3] = req[t].addr
               /\ pdu[4] * 256 + pdu[5] = q
               /\ pdu[6] = Len(pdu) - 6
               /\ req[t].op = "write_coils" =>
                    /\ pdu[6] = (q + 7) \div 8
                    /\ \A i \in 0..(8 * pdu[6] - 1) :
                          Bit(pdu[7 + (i \div 8)], i % 8) =
                              IF i < q THEN req[t].vals[i + 1] ELSE 0
               /\ req[t].op = "write_registers" =>
                    /\ pdu[6] = 2 * q
                    /\ \A i \in 0..(q - 1) :
                          pdu[7 + 2 * i] * 256 + pdu[8 + 2 * i] =
                              (req[t].vals[i + 1] + 65536) % 65536

C9_Witness ==
    \E t \in Tasks :
        /\ pc[t] = "done"
        /\ req[t].op = "write_coils"
        /\ Len(req[t].vals) = 9
        /\ SentPdu(t)[6] = 2
        /\ SentPdu(t)[7] = 85
        /\ result[t] = Number(9)

\* C10: a vector returned by read_holding_registers or read_input_registers
\* of quantity Q, from a response of the request's function code, has Q
\* elements; element i is the big-endian word w at offset 2 + 2*i of the
\* response PDU, as w when the signed flag is false and as w - 65536 for
\* w >= 32768 when it is true.  The request written and the sizes read are
\* those of the other value of the flag.
C10_RegisterVectorAndSignedFlag ==
    \A t \in Tasks :
        /\ (ReturnedVector(t) /\ req[t].op \in ReadRegOps)
           => /\ Len(result[t].vec) = req[t].n
              /\ \A i \in 0..(req[t].n - 1) :
                    LET w == ReceivedPdu(t)[3 + 2 * i] * 256 + ReceivedPdu(t)[4 + 2 * i]
                    IN  result[t].vec[i + 1] =
                            IF signed /\ w >= 32768 THEN w - 65536 ELSE w
        /\ (req[t].op \in ReadRegOps /\ Len(trace[t]) >= 1)
           => /\ SentPdu(t) = RequestPdu(req[t], ~signed).pdu
              /\ trace[t] = Take(<< Op("write", Len(adu[t])), Op("drain", 0),
                                    Op("read", exception_adu_size(protocol)),
                                    Op("read", 2 * req[t].n), Op("parse", 0) >>,
                                 Len(trace[t]))

C10_Witness ==
    \E t \in Tasks :
        /\ ReturnedVector(t)
        /\ req[t].op = "read_input_registers"
        /\ signed
        /\ result[t].vec = << 4660, 43981 - 65536 >>

\* the 16 bits of a register value given in either representation
WireWord(v) == (v + 65536) % 65536

\* C11: write_registers accepts every value of -32768..65535 whatever the
\* signed flag is: the call is not rejected, and the word written for each
\* value is v mod 65536, big-endian, so that -1 and 65535 both go out as FF FF.
C11_WriteRegistersEitherRepresentation ==
    \A t \in Tasks :
        (/\ req[t].op = "write_registers"
         /\ Len(req[t].vals) >= 1
         /\ \A i \in 1..Len(req[t].vals) : req[t].vals[i] \in -32768..65535)
        => /\ Len(trace[t]) >= 1
           /\ \A i \in 1..Len(req[t].vals) :
                 SubSeq(SentPdu(t), 5 + 2 * i, 6 + 2 * i) = PackU16(WireWord(req[t].vals[i]))

\* the byte-count field a read request of quantity n calls for
ExpectedByteCount(r) == IF r.op \in ReadBitOps THEN (r.n + 7) \div 8 ELSE 2 * r.n

\* C13: a read transaction (function codes 1..4) whose response carries a
\* byte-count field other than ceil(quantity/8) for bits or 2*quantity for
\* registers fails; it does not return a vector.
C13_ByteCountMismatchFails ==
    \A t \in Tasks :
        (/\ pc[t] = "done"
         /\ Len(trace[t]) = 5
         /\ req[t].op \in ReadOps
         /\ Len(got[t]) = Overhead + ResponsePduSize(req[t])
         /\ ReceivedPdu(t)[1] = FunctionCode(req[t].op)
         /\ ReceivedPdu(t)[2] # ExpectedByteCount(req[t]))
        => result[t].kind = "error"

\* the call of task t has returned a value
Returned(t) == pc[t] = "done" /\ result[t].kind \in {"number", "vector"}

\* C14: a TCP transaction returns a result only from a response whose MBAP
\* header has protocol id 0, the transaction id and the unit id of the
\* request, and a length field of 1 + len(PDU) (stated for readers that
\* return exactly the bytes asked for).
C14_TcpHeaderChecked ==
    \A t \in Tasks :
        (protocol = "tcp" /\ StreamReadexactly(reader) # "read" /\ Returned(t))
        => /\ SubSeq(got[t], 3, 4) = << 0, 0 >>
           /\ SubSeq(got[t], 1, 2) = SubSeq(adu[t], 1, 2)
           /\ got[t][7] = adu[t][7]
           /\ got[t][5] * 256 + got[t][6] = 1 + (Len(got[t]) - 7)

\* C15: an RTU transaction reports a server exception only from a 5-byte
\* response whose CRC over the first 3 bytes matches its last 2 bytes, and
\* returns a result only from a response whose CRC matches and whose address
\* byte is the request's (stated for readers that return exactly the bytes
\* asked for).
C15_RtuCrcAndAddressChecked ==
    \A t \in Tasks :
        (protocol = "rtu" /\ StreamReadexactly(reader) # "read" /\ pc[t] = "done")
        => /\ result[t].err = "ServerException"
                => get_crc(SubSeq(got[t], 1, 3)) = SubSeq(got[t], 4, 5)
           /\ result[t].kind \in {"number", "vector"}
                => /\ get_crc(SubSeq(got[t], 1, Len(got[t]) - 2))
                        = SubSeq(got[t], Len(got[t]) - 1, Len(got[t]))
                   /\ got[t][1] = adu[t][1]

\* how many operations named op the current call of task t has performed
Count(t, op) == Cardinality({i \in 1..Len(trace[t]) : trace[t][i].op = op})

\* C16: a call writes its request at most once (and drains at most once,
\* reads at most twice); an error is held only by a call that has ended, and
\* it is the error of the step that failed, raised after that step and no
\* other (a cancellation counts as the error of the await it interrupts):
\* validation before any operation, drain after write and drain, the
\* prefix read or the exception decoding after the first read, the remainder
\* read after the second, parsing after both.
C16_FailureEndsCallUnchanged ==
    \A t \in Tasks :
        /\ Count(t, "write") <= 1
        /\ Count(t, "drain") <= 1
        /\ Count(t, "read") <= 2
        /\ result[t].kind = "error" =>
            /\ pc[t] = "done"
            /\ Len(trace[t]) \in {0, 2, 3, 4, 5}
            /\ Len(trace[t]) = 0 =>
                  result[t].err \in {"IllegalDataValueError", "AttributeError"}
            /\ Len(trace[t]) = 2 =>
                  result[t].err \in {"TransportError", "CancelledError"}
            /\ Len(trace[t]) = 3 =>
                  \/ result[t].err \in {"IncompleteReadError", "CancelledError"}
                        /\ got[t] = << >>
                  \/ result[t] = raise_for_exception_adu(protocol, got[t])
            /\ Len(trace[t]) = 4 =>
                  result[t].err \in {"IncompleteReadError", "CancelledError"}
            /\ Len(trace[t]) = 5 =>
                  result[t] = parse_response_adu(protocol, got[t], adu[t], signed)

C16_Witness ==
    \E t \in Tasks :
        /\ pc[t] = "done"
        /\ result[t] = Failure("TransportError")
        /\ trace[t] = << Op("write", Len(adu[t])), Op("drain", 0) >>
        /\ Len(adu[t]) > 0

\* C17: the client never invokes close on the caller's stream: no step in
\* which a call starts, goes on or ends (with a result, a server exception, a
\* validation failure, a transport failure or a cancellation) changes who has
\* closed the stream, and the stream is never closed by the client.
C17_ClientNeverCloses ==
    /\ [](closedBy \in {"nobody", "caller"})
    /\ [][(pc' # pc \/ trace' # trace \/ result' # result) => closedBy' = closedBy]_vars

C17_Witness ==
    \E t \in Tasks :
        /\ pc[t] = "done"
        /\ result[t] = Failure("TransportError")
        /\ closedBy = "nobody"
        /\ ~closed

\* C18: after the caller has cancelled a call at one of its suspension
\* points the adapter holds no pending write of that call (the adapter has no
\* lock and no buffer of its own).
C18_CancelLeavesNoPendingWrite ==
    \A t \in Tasks :
        (pc[t] = "done" /\ result[t] = Failure("CancelledError")) => writeCoro # t

\* C19: write_coils and write_registers with n >= 1 values return n when the
\* response is the function-code-15/16 response to the request: function
\* code, starting address and quantity, in a frame that parses (TCP, or RTU
\* with a matching CRC).
C19_WriteMultipleReturnsQuantity ==
    \A t \in Tasks :
        (/\ pc[t] = "done"
         /\ Len(trace[t]) = 5
         /\ req[t].op \in {"write_coils", "write_registers"}
         /\ Len(req[t].vals) >= 1
         /\ ReceivedPdu(t) = << FunctionCode(req[t].op) >> \o PackU16(req[t].addr)
                               \o PackU16(Len(req[t].vals))
         /\ protocol = "rtu" =>
                get_crc(SubSeq(got[t], 1, 6)) = SubSeq(got[t], 7, 8))
        => result[t] = Number(Len(req[t].vals))

C19_Witness ==
    \E t \in Tasks :
        /\ pc[t] = "done"
        /\ protocol = "rtu"
        /\ req[t].op = "write_registers"
        /\ req[t].vals = << 65535, 4660 >>
        /\ Len(got[t]) = 8
        /\ result[t] = Number(2)

\* the convenience class that fixes protocol P, and the protocol its methods find
ConvenienceFor(P) == IF P = "tcp" THEN "AsyncTCPClient" ELSE "AsyncRTUClient"
ConvenienceProtocol == ResolveProtocol(ConvenienceFor(protocolArg), "none")

\* C20: a call on AsyncClient(stream, protocol=P) performs the stream
\* operations and ends with the result or error that the convenience client
\* fixing P computes for the same request and the same bytes from the stream:
\* the same request ADU, the same read sizes in the same order, the same
\* validation error, exception decoding and parse.
C20_FacadeMatchesConvenienceClient ==
    \A t \in Tasks :
        LET P == ConvenienceProtocol
            n == Len(trace[t])
        IN  /\ client = "AsyncClient"
            /\ n >= 1 =>
                /\ adu[t] = create_request_adu(P, UnpackU16(adu[t], 0), req[t].slave,
                                               RequestPdu(req[t], signed).pdu)
                /\ trace[t] = Take(<< Op("write", Len(adu[t])), Op("drain", 0),
                                      Op("read", exception_adu_size(P)),
                                      Op("read", remainder_size(P, adu[t])),
                                      Op("parse", 0) >>, n)
            /\ (pc[t] = "done" /\ n = 0) =>
                    result[t] = Failure(RequestPdu(req[t], signed).err)
            /\ (pc[t] = "done" /\ n = 3 /\ got[t] # << >>) =>
                    result[t] = raise_for_exception_adu(P, got[t])
            /\ (pc[t] = "done" /\ n = 5) =>
                    result[t] = parse_response_adu(P, got[t], adu[t], signed)

C20_Witness ==
    \E t \in Tasks :
        /\ client = "AsyncClient"
        /\ protocolArg = "rtu"
        /\ pc[t] = "done"
        /\ req[t].op = "write_coil"
        /\ Len(trace[t]) = 5
        /\ result[t] = Number(1)

\* C21: modbus_for_url returns a TCP client for scheme tcp, having appended
\* port 502 to a URL without port; an RTU client for the schemes serial,
\* serial-tcp, rfc2217 and serial-tango; and fails with ValueError (unsupported
\* scheme) for any other scheme and for a string without scheme.
C21_UrlRouting ==
    factory.outcome # "none"
    => LET url == factory.url
           scheme == IF Len(url) >= 2 /\ url[2] = "://" THEN url[1] ELSE ""
           hasPort == \E k \in 1..Len(url) : url[k] \in Ports
       IN  /\ scheme = "tcp"
              => /\ factory.outcome = "client"
                 /\ client = "AsyncTCPClient"
                 /\ protocol = "tcp"
                 /\ factory.target = IF hasPort THEN url ELSE url \o << ":", "502" >>
           /\ scheme \in {"serial", "serial-tcp", "rfc2217", "serial-tango"}
              => /\ factory.outcome = "client"
                 /\ client = "AsyncRTUClient"
                 /\ protocol = "rtu"
                 /\ factory.target = url
           /\ scheme \notin {"tcp", "serial", "serial-tcp", "rfc2217", "serial-tango"}
              => /\ factory.outcome = "error"
                 /\ factory.err = "ValueError"
                 /\ client = "none"

C21_Witness ==
    /\ factory.outcome = "client"
    /\ client = "AsyncTCPClient"
    /\ factory.url = << "tcp", "://", "plc.acme.org" >>
    /\ factory.target = << "tcp", "://", "plc.acme.org", ":", "502" >>

\* C22: over a stream whose write is asynchronous, the adapter's write only
\* captures the pending write, and in every run, interleaved calls on one
\* client included, each captured write is awaited exactly once, by the drain
\* of its own transaction: the assertion of drain never fails, no pending
\* write is dropped and none is awaited twice.
C22_PendingWriteAwaitedOnce ==
    /\ [](\A t \in Tasks :
            /\ result[t] # Failure("AssertionError")
            /\ asyncWrite => awaited[t] = (IF Len(trace[t]) >= 2 THEN 1 ELSE 0)
            /\ ~asyncWrite => (awaited[t] = 0 /\ writeCoro = 0))
    /\ [][\A t \in Tasks :
            (asyncWrite /\ trace'[t] # trace[t] /\ Len(trace'[t]) = 2)
            => /\ writeCoro' = t
               /\ awaited'[t] = 1
               /\ rxbuf' = rxbuf
               /\ \A u \in Tasks \ {t} : awaited'[u] = awaited[u]]_vars

C22_Witness ==
    /\ asyncWrite
    /\ pc[1] = "drain"
    /\ pc[2] = "done"
    /\ Len(trace[2]) = 5
    /\ awaited[1] = 1
    /\ awaited[2] = 1
    /\ writeCoro = 0

\* the well-formed responses a server may give to the request of task t
OwnResponses(t) == {ResponseAdu(protocol, adu[t], b) : b \in SessionBehaviours}

\* C23: in a sequence of non-overlapping transactions against a server that
\* answers each request with one well-formed response, every transaction
\* consumes exactly the bytes of its own response: it starts reading at the
\* first byte of its response, and when it returns or raises the server
\* exception it has read that response and nothing is left unread.
C23_ConsumesOwnResponse ==
    \A t \in Tasks :
        /\ pc[t] = "read1" => rxbuf \in OwnResponses(t)
        /\ (pc[t] = "done" /\ (result[t].kind \in {"number", "vector"}
                                \/ result[t].err = "ServerException"))
           => (got[t] \in OwnResponses(t) /\ rxbuf = << >>)

\* the same for readers that return exactly the bytes asked for
C23_ExactReaders ==
    StreamReadexactly(reader) # "read" => C23_ConsumesOwnResponse

\* C24: for every request that passes validation the exception-prefix size
\* (9 for TCP, 5 for RTU) is strictly smaller than the expected size of the
\* successful response ADU, so the length passed to the second read is at
\* least 1, never zero or negative.
C24_RemainderAtLeastOne ==
    \A t \in Tasks :
        /\ Len(trace[t]) >= 2
           => /\ exception_adu_size(protocol) < expected_response_size(protocol, adu[t])
              /\ PrefixSize < Overhead + ResponsePduSize(req[t])
        /\ Len(trace[t]) >= 4 => trace[t][4].n >= 1

C24_Witness ==
    \E t \in Tasks :
        /\ pc[t] = "done"
        /\ protocol = "rtu"
        /\ req[t].op = "read_discrete_inputs"
        /\ Len(trace[t]) = 5
        /\ trace[t][4] = Op("read", 1)
        /\ expected_response_size(protocol, adu[t]) = 6

\* C25: driver and adapter carry no state from one transaction to the next:
\* after a transaction that ran to completion, with a result or an error, the
\* adapter's pending-write slot is empty and the protocol binding of the
\* client is the one it was built with; and the outcome of a transaction that
\* read its response is determined by its request, the signed flag and the
\* bytes the stream returned to it.
C25_NoStateBetweenTransactions ==
    /\ protocol = ResolveProtocol(client, protocolArg)
    /\ \A t \in Tasks :
          /\ (/\ pc[t] = "done"
              /\ result[t].err # "CancelledError"
              /\ \A u \in Tasks : pc[u] \in {"idle", "done"})
             => writeCoro = 0
          /\ (pc[t] = "done" /\ Len(trace[t]) = 5)
             => result[t] = parse_response_adu(protocol, got[t], adu[t], signed)

\* C26: when the client is built from a (reader, writer) pair every read of
\* every transaction goes to the reader and every write, drain and close to
\* the writer; when it is built from a single object all four go to it.
C26_OperationsGoToTheirObject ==
    LET r == IF stream = "pair" THEN "reader" ELSE "stream"
        w == IF stream = "pair" THEN "writer" ELSE "stream"
    IN  /\ \A t \in Tasks : \A i \in 1..Len(trace[t]) :
              /\ trace[t][i].op = "read" => trace[t][i].on = r
              /\ trace[t][i].op \in {"write", "drain"} => trace[t][i].on = w
        /\ closedBy # "nobody" => closedOn = w
        /\ closedBy = "nobody" => closedOn = "none"

C26_Witness ==
    /\ stream = "pair"
    /\ closedOn = "writer"
    /\ pc[1] = "done"
    /\ Len(trace[1]) = 5
    /\ trace[1][1].on = "writer"
    /\ trace[1][2].on = "writer"
    /\ trace[1][3].on = "reader"
    /\ trace[1][4].on = "reader"

\* C27: if every awaited stream operation eventually completes, every facade
\* call eventually completes with a result or an error, after at most one
\* write, one drain and two reads.
C27_EveryCallCompletes ==
    /\ [](\A t \in Tasks :
            /\ Count(t, "write") <= 1
            /\ Count(t, "drain") <= 1
            /\ Count(t, "read") <= 2)
    /\ \A t \in Tasks :
          (pc[t] \notin {"idle", "done"}) ~> (pc[t] = "done" /\ result[t].kind # "none")

C27_Witness ==
    /\ budget = 0
    /\ pc[1] = "done"
    /\ protocol = "rtu"
    /\ result[1].kind = "number"
    /\ Count(1, "write") = 1
    /\ Count(1, "drain") = 1
    /\ Count(1, "read") = 2

====
